---------------------------- MODULE Spec2Model ----------------------------
(***************************************************************************)
(* Black-Scholes-Merton pricer (option_price), implied-volatility solver   *)
(* (implied_volatility, a wrapper of scipy's brentq) and the quote         *)
(* filtering of the surface application (app.py).                          *)
(*                                                                         *)
(* Numbers.  The program computes in IEEE doubles.  The model computes in  *)
(* decimal fixed point: a real x is the integer x * SC (SC = 10^7), a      *)
(* probability p is the integer p * PS (PS = 10^9).  Every intermediate    *)
(* value stays within 32 bits; products are formed by MulDiv, which never  *)
(* builds the double-width product.  Quotients are rounded toward zero and  *)
(* a value beyond 32 bits is +-MaxInt, the model's infinity.               *)
(***************************************************************************)
EXTENDS Integers, Sequences, FiniteSets, TLC

MaxInt == 2^30 + (2^30 - 1)
SC == 10^7
PS == 10^9

----------------------------------------------------------------------------
(* double arithmetic, in fixed point *)

\* The arithmetic is defined as functions on Int: a function's arguments are
\* values, computed once, before its body is.

Abs[x \in Int] == IF x < 0 THEN -x ELSE x

Sgn[x \in Int] == IF x > 0 THEN 1 ELSE IF x < 0 THEN -1 ELSE 0

Min[a, b \in Int] == IF a < b THEN a ELSE b

Max[a, b \in Int] == IF a > b THEN a ELSE b

\* a + b, saturating at +-MaxInt (the model's infinity)
Add[a, b \in Int] ==
    IF a > 0 /\ b > MaxInt - a THEN MaxInt
    ELSE IF a < 0 /\ b < (-MaxInt) - a THEN -MaxInt
    ELSE a + b

\* x / 2, rounded toward zero
Half[x \in Int] == Sgn[x] * (Abs[x] \div 2)

\* x / n for an integer n > 0, rounded toward zero
DivInt[x, n \in Int] == Sgn[x] * (Abs[x] \div n)

\* the one element of a singleton
Only(S) == CHOOSE y \in S : TRUE

\* One bit of the long multiplication: from p = <<q, r>> with a*b = q*c + r to
\* the pair for a * (2b + bit), where a = qa*c + ra; the quotient is MaxInt as
\* soon as it leaves 32 bits.
BitStep[p \in Int \X Int, qa, ra, bit, c \in Int] ==
    LET r == p[2]
        c1 == IF r >= c - r THEN 1 ELSE 0
        t == IF c1 = 1 THEN r - (c - r) ELSE r + r
        add == bit * ra
        c2 == IF t >= c - add THEN 1 ELSE 0
        t2 == IF c2 = 1 THEN t - (c - add) ELSE t + add
    IN  IF p[1] = MaxInt \/ (bit = 1 /\ qa > MaxInt - 2) THEN <<MaxInt, 0>>
        ELSE IF p[1] > (MaxInt - (bit * qa + c1 + c2)) \div 2 THEN <<MaxInt, 0>>
        ELSE <<2 * p[1] + bit * qa + c1 + c2, t2>>

\* Four bits of the long multiplication, the highest first: d is in 0 .. 15
NibbleStep[p \in Int \X Int, qa, ra, d, c \in Int] ==
    BitStep[BitStep[BitStep[BitStep[p, qa, ra, d \div 8, c],
                            qa, ra, (d \div 4) % 2, c],
                    qa, ra, (d \div 2) % 2, c],
            qa, ra, d % 2, c]

\* <<q, r>> with (qa*c + ra) * b = q*c + r and 0 <= r < c
MulDivBits[qa, ra, b, c \in Int] ==
    IF b = 0 THEN <<0, 0>>
    ELSE NibbleStep[MulDivBits[qa, ra, b \div 16, c], qa, ra, b % 16, c]

\* a * b / c rounded toward zero, saturating; x / 0 is the infinity of x's sign
MulDiv[a, b, c \in Int] ==
    IF c = 0 THEN Sgn[a] * Sgn[b] * MaxInt
    ELSE MulDivBits[Abs[a] \div Abs[c], Abs[a] % Abs[c], Abs[b], Abs[c]][1]
         * (Sgn[a] * Sgn[b] * Sgn[c])

Mul[a, b \in Int] == MulDiv[a, b, SC]

Div[a, b \in Int] == MulDiv[a, SC, b]

\* one step of Newton's iteration for the root of x
Newton[x, s \in Int] == (s + MulDiv[x, SC, s]) \div 2

\* Newton's iteration for the root of x, downward from s
SqrtNewton[x, s \in Int] ==
    IF Newton[x, s] >= s THEN s ELSE SqrtNewton[x, Newton[x, s]]

\* np.sqrt, for x >= 0
Sqrt[x \in Int] == IF x <= 0 THEN 0 ELSE SqrtNewton[x, Max[x, SC]]

\* ln 2
Ln2 == 6931472

\* acc + the sum of z^j / j over the odd j from k on, term = z^k
LnSeries[acc, term, z2, k \in Int] ==
    IF term = 0 THEN acc
    ELSE LnSeries[acc + DivInt[term, k], Mul[term, z2], z2, k + 2]

\* 2 atanh z
Atanh2[z \in Int] == 2 * LnSeries[0, z, Mul[z, z], 1]

\* np.log, for y > 0: ln y = 2 atanh((y - 1) / (y + 1)) after halving or
\* doubling y into [3/4, 3/2]
Ln[y \in Int] ==
    IF y > (3 * SC) \div 2 THEN Ln[y \div 2] + Ln2
    ELSE IF y < (3 * SC) \div 4 THEN Ln[2 * y] - Ln2
    ELSE Atanh2[Div[y - SC, y + SC]]

\* acc + the sum of x^j / j! from j = k - 1 on, term = x^(k-1) / (k-1)!
ExpSeries[acc, term, x, k \in Int] ==
    IF term = 0 THEN acc
    ELSE ExpSeries[acc + term, DivInt[Mul[term, x], k], x, k + 1]

Square[h \in Int] == Mul[h, h]

\* np.exp: the Taylor series for |x| <= 1/2, exp(x) = exp(x/2)^2 beyond
Exp[x \in Int] ==
    IF Abs[x] > SC \div 2 THEN Square[Exp[Half[x]]] ELSE ExpSeries[0, SC, x, 1]

\* The standard normal distribution function and density at 0, 1/2, 1, ...,
\* 13/2, times PS.
CdfTable ==
    << 500000000, 691462461, 841344746, 933192799, 977249868, 993790335,
       998650102, 999767371, 999968329, 999996602, 999999713, 999999981,
       999999999, 1000000000 >>

PdfTable ==
    << 398942280, 352065327, 241970725, 129517596, 53990967, 17528300,
       4431848, 872683, 133830, 15984, 1487, 108, 6, 0 >>

\* the Taylor expansion of the distribution function about a table point is
\* carried to this order
CdfOrder == 12

\* acc + the sum over j >= k of (-1)^(j-1) w_j, where w_j = He_(j-1)(x0) t^j / j!
\* (He the Hermite polynomials), w = w_k, wprev = w_(k-1), ht = x0 * t, t2 = t^2
CdfSeries[acc, ht, t2, wprev, w, k, sign \in Int] ==
    IF k > CdfOrder THEN acc
    ELSE CdfSeries[acc + sign * w, ht, t2, w,
                   DivInt[MulDiv[ht, w, PS], k + 1]
                   - DivInt[MulDiv[t2, wprev, PS] * (k - 1), k * (k + 1)],
                   k + 1, -sign]

\* the distribution function at x0 + t for the table point x0 = h / 2
CdfNear[h, t \in Int] ==
    CdfTable[h + 1]
    + MulDiv[PdfTable[h + 1],
             CdfSeries[0, Half[t] * h, MulDiv[t, t, PS], 0, t, 1, 1], PS]

\* the distribution function at a, about the table point h / 2
CdfAt[a, h \in Int] ==
    Max[0, Min[PS, CdfNear[h, (a - h * (SC \div 2)) * (PS \div SC)]]]

\* norm.cdf for a >= 0 (a at scale SC), at scale PS
CdfUpper[a \in Int] ==
    IF a >= (Len(CdfTable) * SC) \div 2 - SC \div 4 THEN PS
    ELSE CdfAt[a, (2 * a + SC \div 2) \div SC]

\* scipy.stats.norm.cdf
norm_cdf[d \in Int] == IF d >= 0 THEN CdfUpper[d] ELSE PS - CdfUpper[-d]

----------------------------------------------------------------------------
(* black_scholes_merton.option_price *)

OptionTypes == {"c", "p"}

\* what a function call yields: a number, or a raised exception
Value(v) == [exc |-> "none", v |-> v]

Raise(e) == [exc |-> e, v |-> 0]

\* num / vs + vs / 2
Standardize[num, vs \in Int] == Add[Div[num, vs], Half[vs]]

\* d1 of line 9.  The quotient (ln(S/K) + (r - q + sigma^2/2) T) / (sigma sqrt T)
\* is formed as (ln(S/K) + (r - q) T) / (sigma sqrt T) + sigma sqrt T / 2: the
\* same number, whose parts stay within the fixed-point range for sigma <= 200.
D1[S, K, T, r, sigma, q \in Int] ==
    Standardize[Ln[Div[S, K]] + Mul[r - q, T], Mul[sigma, Sqrt[T]]]

\* d2 of line 10
D2[d1, sigma, T \in Int] == Add[d1, -Mul[sigma, Sqrt[T]]]

CallPrice(S, K, T, r, q, d1, d2) ==
    MulDiv[Mul[S, Exp[-Mul[q, T]]], norm_cdf[d1], PS]
    - MulDiv[Mul[K, Exp[-Mul[r, T]]], norm_cdf[d2], PS]

\* a variant of PutPrice with a fault: the strike is not discounted
PutPriceUndiscounted(S, K, T, r, q, d1, d2) ==
    MulDiv[K, norm_cdf[-d2], PS]
    - MulDiv[Mul[S, Exp[-Mul[q, T]]], norm_cdf[-d1], PS]

PutPrice(S, K, T, r, q, d1, d2) ==
    MulDiv[Mul[K, Exp[-Mul[r, T]]], norm_cdf[-d2], PS]
    - MulDiv[Mul[S, Exp[-Mul[q, T]]], norm_cdf[-d1], PS]

\* a variant of option_price with a fault: every type but "c" is priced as a put
option_pricePutElse(S, K, T, r, sigma, q, option_type) ==
    Only({ IF option_type = "c"
           THEN Value(CallPrice(S, K, T, r, q, d1, D2[d1, sigma, T]))
           ELSE Value(PutPrice(S, K, T, r, q, d1, D2[d1, sigma, T])) :
               d1 \in {D1[S, K, T, r, sigma, q]} })

option_price(S, K, T, r, sigma, q, option_type) ==
    Only({ IF option_type = "c"
           THEN Value(CallPrice(S, K, T, r, q, d1, D2[d1, sigma, T]))
           ELSE IF option_type = "p"
           THEN Value(PutPrice(S, K, T, r, q, d1, D2[d1, sigma, T]))
           ELSE Raise("ValueError") :
               d1 \in {D1[S, K, T, r, sigma, q]} })

----------------------------------------------------------------------------
(* black_scholes_merton.implied_volatility and the brentq call it makes *)

\* brentq's bracket: 1e-6 and 200
BracketLo == 10

BracketHi == 200 * SC

\* tol = 1e-6
DefaultTol == 10

DefaultMaxIter == 100

\* what implied_volatility gives its caller
Pending == [kind |-> "pending", v |-> 0, exc |-> "none"]

NaN == [kind |-> "nan", v |-> 0, exc |-> "none"]

Number(x) == [kind |-> "number", v |-> x, exc |-> "none"]

Raised(e) == [kind |-> "raise", v |-> 0, exc |-> e]

\* variants of Degenerate with a fault: T = 0 is let through; T is not looked at
DegenerateZeroTime(T, market_price) == T < 0 \/ market_price <= 0

DegeneratePriceOnly(T, market_price) == market_price <= 0

\* line 30
Degenerate(T, market_price) == T <= 0 \/ market_price <= 0

\* a variant of target_fn with a fault: the rate and the yield change places
target_fnSwapped(a, sigma) ==
    Only({ IF p.exc # "none" THEN p ELSE Value(p.v - a.market_price) :
               p \in {option_price(a.S, a.K, a.T, a.q, sigma, a.r,
                                   a.option_type)} })

target_fn(a, sigma) ==
    Only({ IF p.exc # "none" THEN p ELSE Value(p.v - a.market_price) :
               p \in {option_price(a.S, a.K, a.T, a.r, sigma, a.q,
                                   a.option_type)} })

\* a variant of Handler with a fault: only ValueError is caught
HandlerValueOnly(e) == IF e = "ValueError" THEN NaN ELSE Raised(e)

\* lines 37-40: what the call returns when exception e leaves brentq
Handler(e) ==
    IF e \in {"ValueError", "RuntimeError"} THEN NaN ELSE Raised(e)

\* brentq's results check: the exception for an unsuccessful status (disp=True)
BrentqError(status) ==
    IF status = "SIGNERR" THEN "ValueError" ELSE "RuntimeError"

\* The locals of one implied_volatility call and of its brentq search.  sigma
\* is the volatility of the last option_price invocation, funcalls their number.
NewFrame ==
    [pc |-> "call", xpre |-> 0, xcur |-> 0, xblk |-> 0, fpre |-> 0, fcur |-> 0,
     fblk |-> 0, spre |-> 0, scur |-> 0, i |-> 0, funcalls |-> 0, sigma |-> 0,
     status |-> "INPROGRESS", ret |-> Pending]

Return(fr, status, ret) ==
    [fr EXCEPT !.pc = "done", !.status = status, !.ret = ret]

Signbit(x) == x < 0

\* lines 30-31, then the call of line 38
GuardF(a, fr) ==
    IF Degenerate(a.T, a.market_price)
    THEN Return(fr, fr.status, NaN)
    ELSE [fr EXCEPT !.pc = "fa"]

\* brentq: its argument checks and f(xa)
EvalAF(a, fr) ==
    IF a.tol <= 0 \/ a.max_iter < 1
    THEN Return(fr, fr.status, Handler("ValueError"))
    ELSE LET g == [fr EXCEPT !.xpre = BracketLo, !.xcur = BracketHi,
                             !.funcalls = 1, !.sigma = BracketLo]
         IN  Only({ IF f.exc # "none" THEN Return(g, g.status, Handler(f.exc))
                    ELSE [g EXCEPT !.pc = "fb", !.fpre = f.v] :
                        f \in {target_fn(a, BracketLo)} })

\* brentq: f(xb) and the checks before the loop
EvalBF(a, fr) ==
    LET g == [fr EXCEPT !.funcalls = 2, !.sigma = fr.xcur]
    IN  Only({ IF f.exc # "none" THEN Return(g, g.status, Handler(f.exc))
               ELSE IF g.fpre = 0 THEN Return(g, "CONVERGED", Number(g.xpre))
               ELSE IF f.v = 0
               THEN Return([g EXCEPT !.fcur = 0], "CONVERGED", Number(g.xcur))
               ELSE IF Signbit(g.fpre) = Signbit(f.v)
               THEN Return([g EXCEPT !.fcur = f.v], "SIGNERR",
                           Handler(BrentqError("SIGNERR")))
               ELSE [g EXCEPT !.pc = "loop", !.fcur = f.v, !.i = 0] :
                   f \in {target_fn(a, fr.xcur)} })

\* the bracket update at the head of a brentq iteration
Update(fr) ==
    IF fr.fpre # 0 /\ fr.fcur # 0 /\ Signbit(fr.fpre) # Signbit(fr.fcur)
    THEN [fr EXCEPT !.xblk = fr.xpre, !.fblk = fr.fpre,
                    !.spre = fr.xcur - fr.xpre, !.scur = fr.xcur - fr.xpre]
    ELSE fr

\* the swap that makes xcur the estimate with the smaller |f|
Swap(u) ==
    IF Abs[u.fblk] < Abs[u.fcur]
    THEN [u EXCEPT !.xpre = u.xcur, !.xcur = u.xblk, !.xblk = u.xcur,
                   !.fpre = u.fcur, !.fcur = u.fblk, !.fblk = u.fcur]
    ELSE u

Bracket(fr) == Only({ Swap(u) : u \in {Update(fr)} })

\* delta = (xtol + rtol*|xcur|) / 2; rtol = 4 eps is below the model's resolution
Delta(xtol) == Half[xtol]

\* a variant of Converged with a fault: it also takes a target within the
\* tolerance for convergence
ConvergedOnValue(fcur, width, xtol) == Abs[fcur] <= xtol \/ Abs[width] <= xtol

\* brentq's convergence test, fcur == 0 || |sbis| < delta, with sbis = width / 2:
\* the width is compared with xtol + rtol*|xcur|, and rtol*|xcur| > 0 is below
\* the model's resolution, so that for the model's numbers the comparison is
\* width <= xtol
Converged(fcur, width, xtol) == fcur = 0 \/ Abs[width] <= xtol

\* the secant step
Interpolate(b) == MulDiv[-b.fcur, b.xcur - b.xpre, b.fcur - b.fpre]

\* The inverse quadratic step -fcur (fblk dblk - fpre dpre) / (dblk dpre (fblk -
\* fpre)), with dpre = (fpre - fcur) / (xpre - xcur) and dblk = (fblk - fcur) /
\* (xblk - xcur), formed as
\*   -fcur / (fblk - fpre) * (fblk / dpre - fpre / dblk):
\* the same number, without the product of the two slopes.
Extrapolate(b) ==
    MulDiv[-b.fcur,
           Add[MulDiv[b.fblk, b.xpre - b.xcur, Add[b.fpre, -b.fcur]],
               -MulDiv[b.fpre, b.xblk - b.xcur, Add[b.fblk, -b.fcur]]],
           Add[b.fblk, -b.fpre]]

\* 2 |stry| < MIN(|spre|, 3 |sbis| - delta)
GoodStep(stry, spre, sbis, delta) ==
    /\ Abs[stry] <= MaxInt \div 2
    /\ 2 * Abs[stry] < Min[Abs[spre], Add[2 * Abs[sbis], Abs[sbis] - delta]]

\* <<spre, scur>> chosen by an iteration that has not converged
Steps(b, sbis, delta) ==
    IF Abs[b.spre] > delta /\ Abs[b.fcur] < Abs[b.fpre]
    THEN Only({ IF GoodStep(stry, b.spre, sbis, delta) THEN <<b.scur, stry>>
                ELSE <<sbis, sbis>> :
                    stry \in {IF b.xpre = b.xblk THEN Interpolate(b)
                              ELSE Extrapolate(b)} })
    ELSE <<sbis, sbis>>

\* the next estimate
Advance(xcur, scur, sbis, delta) ==
    IF Abs[scur] > delta THEN xcur + scur
    ELSE IF sbis > 0 THEN xcur + delta
    ELSE xcur - delta

\* the rest of an iteration that has not converged: the step and f at the new
\* estimate
Move(a, b, sbis, delta) ==
    Only({ LET xn == Advance(b.xcur, s[2], sbis, delta)
               g == [b EXCEPT !.spre = s[1], !.scur = s[2], !.xpre = b.xcur,
                              !.fpre = b.fcur, !.xcur = xn, !.i = b.i + 1,
                              !.funcalls = b.funcalls + 1, !.sigma = xn]
           IN  Only({ IF f.exc # "none"
                      THEN Return(g, g.status, Handler(f.exc))
                      ELSE [g EXCEPT !.fcur = f.v] :
                          f \in {target_fn(a, xn)} }) :
               s \in {Steps(b, sbis, delta)} })

\* one pass of brentq's loop, and what follows the loop when it is exhausted
IterF(a, fr) ==
    IF fr.i >= a.max_iter
    THEN Return(fr, "CONVERR", Handler(BrentqError("CONVERR")))
    ELSE Only({ IF Converged(b.fcur, b.xblk - b.xcur, a.tol)
                THEN Return(b, "CONVERGED", Number(b.xcur))
                ELSE Move(a, b, Half[b.xblk - b.xcur], Delta(a.tol)) :
                    b \in {Bracket(fr)} })

StepF(a, fr) ==
    IF fr.pc = "call" THEN GuardF(a, fr)
    ELSE IF fr.pc = "fa" THEN EvalAF(a, fr)
    ELSE IF fr.pc = "fb" THEN EvalBF(a, fr)
    ELSE IterF(a, fr)

RECURSIVE RunSteps(_, _, _)
\* the call 2^n steps after frame fr, or at its return when that comes sooner
RunSteps(a, fr, n) ==
    IF fr.pc = "done" THEN fr
    ELSE IF n = 0 THEN StepF(a, fr)
    ELSE Only({ RunSteps(a, mid, n - 1) : mid \in {RunSteps(a, fr, n - 1)} })

RECURSIVE RunFrom(_, _, _)
\* the call from frame fr to its return, by 2^n steps, then 2^(n+1), ...
RunFrom(a, fr, n) ==
    Only({ IF g.pc = "done" THEN g ELSE RunFrom(a, g, n + 1) :
               g \in {RunSteps(a, fr, n)} })

\* the call from frame fr to its return
Run(a, fr) == RunFrom(a, fr, 0)

\* a whole call, run alone
implied_volatility(a) == Run(a, NewFrame).ret

----------------------------------------------------------------------------
(* the state *)

VARIABLES
    args,     \* call -> the arguments of that implied_volatility call
    frame,    \* call -> the locals of that call
    alone,    \* call -> what the call returns when it runs alone
    quote,    \* the parameters option_price is applied to
    priced,   \* option type -> what option_price gave for quote and that type
    app       \* the surface application

vars == <<args, frame, alone, quote, priced, app>>

NoQuote == [S |-> 0, K |-> 0, T |-> 0, r |-> 0, q |-> 0, sigma |-> 0]

NoApp == [pc |-> "off"]

Args(S, K, T, r, q, market_price, option_type, tol, max_iter) ==
    [S |-> S, K |-> K, T |-> T, r |-> r, q |-> q, market_price |-> market_price,
     option_type |-> option_type, tol |-> tol, max_iter |-> max_iter]

\* a variant of Closure with a fault: every call's target_fn reads the arguments
\* of the first call
ClosureShared(c) == args[1]

\* target_fn is a closure over the arguments of the call that defines it
Closure(c) == args[c]

----------------------------------------------------------------------------
(* one implied_volatility call, a step at a time *)

Guard(c) ==
    /\ frame[c].pc = "call"
    /\ frame' = [frame EXCEPT ![c] = GuardF(Closure(c), frame[c])]
    /\ UNCHANGED <<args, alone, quote, priced, app>>

EvalA(c) ==
    /\ frame[c].pc = "fa"
    /\ frame' = [frame EXCEPT ![c] = EvalAF(Closure(c), frame[c])]
    /\ UNCHANGED <<args, alone, quote, priced, app>>

EvalB(c) ==
    /\ frame[c].pc = "fb"
    /\ frame' = [frame EXCEPT ![c] = EvalBF(Closure(c), frame[c])]
    /\ UNCHANGED <<args, alone, quote, priced, app>>

Iter(c) ==
    /\ frame[c].pc = "loop"
    /\ frame' = [frame EXCEPT ![c] = IterF(Closure(c), frame[c])]
    /\ UNCHANGED <<args, alone, quote, priced, app>>

NextSolver ==
    \/ \E c \in DOMAIN frame : Guard(c)
    \/ \E c \in DOMAIN frame : EvalA(c)
    \/ \E c \in DOMAIN frame : EvalB(c)
    \/ \E c \in DOMAIN frame : Iter(c)

\* an iteration budget small enough to be exhausted, and a coarse tolerance
SmallMaxIter == 3

LooseTol == 100000

SolverArgs ==
    { Args(100 * SC, K * SC, T, 400000, 100000, mp, ty, tol, mi) :
        K \in {80, 100, 120}, T \in {-(SC \div 2), 0, SC \div 2},
        mp \in {-SC, 0, 5 * SC, 200 * SC}, ty \in {"c", "p", "x"},
        tol \in {DefaultTol, LooseTol}, mi \in {DefaultMaxIter, SmallMaxIter} }

Init ==
    /\ args \in [{1} -> SolverArgs]
    /\ frame = [c \in {1} |-> NewFrame]
    /\ alone = <<>>
    /\ quote = NoQuote
    /\ priced = <<>>
    /\ app = NoApp

Spec == Init /\ [][NextSolver]_vars

----------------------------------------------------------------------------
(* option_price applied to drawn parameters *)

Quote(S, K, T, r, q, sigma) ==
    [S |-> S, K |-> K, T |-> T, r |-> r, q |-> q, sigma |-> sigma]

\* 7 days, half a year and a year; volatilities from the bracket's lower end to
\* its upper end
PricerQuotes ==
    { Quote(100 * SC, K * SC, T, 400000, q, sigma) :
        K \in {80, 100, 120}, T \in {(7 * SC) \div 365, SC \div 2, SC},
        q \in {0, 100000},
        sigma \in {BracketLo, SC \div 10, SC \div 5, SC \div 2, BracketHi} }

PriceType(t) ==
    /\ app = NoApp /\ frame = <<>>
    /\ t \notin DOMAIN priced
    /\ priced' = priced @@ (t :> option_price(quote.S, quote.K, quote.T, quote.r,
                                              quote.sigma, quote.q, t))
    /\ UNCHANGED <<args, frame, alone, quote, app>>

NextPricer == PriceType("c") \/ PriceType("p") \/ PriceType("x")

InitPricer ==
    /\ quote \in PricerQuotes
    /\ priced = <<>>
    /\ args = <<>>
    /\ frame = <<>>
    /\ alone = <<>>
    /\ app = NoApp

SpecPricer == InitPricer /\ [][NextPricer]_vars

----------------------------------------------------------------------------
(* a call price, then implied_volatility of that price *)

RoundTripQuotes ==
    { Quote(100 * SC, K * SC, SC \div 2, 400000, 100000, sigma) :
        K \in {80, 100, 120}, sigma \in {SC \div 10, SC \div 5, SC \div 2} }

Scenario == Quote(100 * SC, 100 * SC, SC, 500000, 0, SC \div 5)

\* the price of the quote as a call, then the call of implied_volatility with
\* that price and the defaults option_type = "c", tol, max_iter
Invert ==
    /\ priced = <<>> /\ frame = <<>>
    /\ \E p \in {option_price(quote.S, quote.K, quote.T, quote.r, quote.sigma,
                              quote.q, "c")} :
           /\ priced' = ("c" :> p)
           /\ args' = <<Args(quote.S, quote.K, quote.T, quote.r, quote.q, p.v,
                             "c", DefaultTol, DefaultMaxIter)>>
    /\ frame' = <<NewFrame>>
    /\ UNCHANGED <<alone, quote, app>>

NextRoundTrip ==
    \/ Invert
    \/ \E c \in DOMAIN frame : Guard(c)
    \/ \E c \in DOMAIN frame : EvalA(c)
    \/ \E c \in DOMAIN frame : EvalB(c)
    \/ \E c \in DOMAIN frame : Iter(c)

InitRoundTrip ==
    /\ quote \in RoundTripQuotes \cup {Scenario}
    /\ priced = <<>>
    /\ args = <<>>
    /\ frame = <<>>
    /\ alone = <<>>
    /\ app = NoApp

SpecRoundTrip == InitRoundTrip /\ [][NextRoundTrip]_vars

----------------------------------------------------------------------------
(* several implied_volatility calls at once *)

NCalls == 2

\* a call that finds a root, another one, and a degenerate call
ConcArgs ==
    { Args(100 * SC, 100 * SC, SC \div 2, 400000, 100000, 5 * SC, "c",
           LooseTol, DefaultMaxIter),
      Args(100 * SC, 120 * SC, SC \div 2, 400000, 100000, 5 * SC, "c",
           LooseTol, DefaultMaxIter),
      Args(100 * SC, 100 * SC, 0, 400000, 100000, 5 * SC, "c",
           LooseTol, DefaultMaxIter) }

InitConc ==
    /\ args \in [1 .. NCalls -> ConcArgs]
    /\ frame = [c \in 1 .. NCalls |-> NewFrame]
    /\ alone = [c \in 1 .. NCalls |-> implied_volatility(args[c])]
    /\ quote = NoQuote
    /\ priced = <<>>
    /\ app = NoApp

SpecConc == InitConc /\ [][NextSolver]_vars

----------------------------------------------------------------------------
(* app: the option chains, the implied volatilities, the points of the surface *)

\* line 59
MinDays == 7

\* lines 85 and 98
DaysPerYear == 365

\* line 90
Percent == 100

Option(strike, bid, ask) == [strike |-> strike, bid |-> bid, ask |-> ask]

Expiration(days, chain) == [days |-> days, chain |-> chain]

\* Expirations a fetch can return, for a close price of 100: one inside the
\* week; one at 7 days with an at-the-money quote, a quote at the upper edge of
\* the band and one beyond it; one at 30 days with a quote at the lower edge of
\* the band priced below its intrinsic value, a quote without bid and ask, and
\* an at-the-money quote; one at 60 days with nothing to keep.
Fetchable ==
    { Expiration(6, << Option(100 * SC, 10 * (SC \div 10), 12 * (SC \div 10)) >>),
      Expiration(7, << Option(100 * SC, 10 * (SC \div 10), 12 * (SC \div 10)),
                       Option(120 * SC, 0, 2 * (SC \div 100)),
                       Option(130 * SC, 5 * (SC \div 10), 7 * (SC \div 10)) >>),
      Expiration(30, << Option(80 * SC, 149 * (SC \div 10), 151 * (SC \div 10)),
                        Option(100 * SC, 0, 0),
                        Option(100 * SC, 22 * (SC \div 10), 24 * (SC \div 10)) >>),
      Expiration(60, << Option(150 * SC, SC, 2 * SC),
                        Option(100 * SC, 0, 0) >>) }

MaxExps == 2

Fetches == UNION { [1 .. n -> Fetchable] : n \in 0 .. MaxExps }

\* line 62
Mid(o) == (o.ask + o.bid) \div 2

\* line 67
Moneyness(o, close_price) == Div[o.strike, close_price]

\* lines 64 and 69-72
Kept(o, p) ==
    /\ Mid(o) > 0
    /\ Moneyness(o, p.close_price) <= p.max_moneyness
    /\ Moneyness(o, p.close_price) >= p.min_moneyness

\* the columns of calls_data, and the column line 81 adds
Row(o, days, p) ==
    [strike |-> o.strike, moneyness |-> Moneyness(o, p.close_price),
     days_to_exp |-> days, market_price |-> Mid(o), iv |-> Pending]

RECURSIVE Rows(_, _, _)
\* lines 61-72: the rows of a chain that are kept
Rows(chain, days, p) ==
    IF chain = <<>> THEN <<>>
    ELSE (IF Kept(Head(chain), p) THEN <<Row(Head(chain), days, p)>> ELSE <<>>)
         \o Rows(Tail(chain), days, p)

\* lines 59-72: what an expiration adds to calls_data
ChainRows(e, p) == IF e.days < MinDays THEN <<>> ELSE Rows(e.chain, e.days, p)

\* days_to_exp / 365
Years(days) == MulDiv[days, SC, DaysPerYear]

\* implied_volatility(...) * 100; nan * 100 is nan
InPercent(ret) ==
    IF ret.kind = "number" THEN Number(MulDiv[ret.v, Percent, 1]) ELSE ret

\* a variant of Defined with a fault: every row is kept
DefinedAlways(row) == row = row

\* line 94: the rows dropna keeps
Defined(row) == row.iv.kind # "nan"

RECURSIVE DefinedRows(_)
\* line 94: dropna
DefinedRows(rows) ==
    IF rows = <<>> THEN <<>>
    ELSE (IF Defined(Head(rows)) THEN <<Head(rows)>> ELSE <<>>)
         \o DefinedRows(Tail(rows))

\* the application after the fetch: the sidebar's values at their defaults
NewApp(fetched) ==
    [pc |-> "loop", fetched |-> fetched, next |-> 1, calls_data |-> <<>>,
     row |-> 1, points |-> <<>>, close_price |-> 100 * SC,
     risk_free_rate |-> 4 * (SC \div 100), div_yield |-> SC \div 100,
     min_moneyness |-> 8 * (SC \div 10), max_moneyness |-> 12 * (SC \div 10)]

\* lines 49-51
NoData ==
    /\ app.pc = "loop" /\ Len(app.fetched) = 0
    /\ app' = [app EXCEPT !.pc = "stopped"]
    /\ UNCHANGED <<args, frame, alone, quote, priced>>

\* lines 54-79: one pass of the loop over the expirations
LoopExp ==
    /\ app.pc = "loop" /\ app.next <= Len(app.fetched)
    /\ app' = [app EXCEPT
                   !.calls_data = @ \o ChainRows(app.fetched[app.next], app),
                   !.next = @ + 1,
                   !.pc = IF app.next = Len(app.fetched) THEN "apply" ELSE "loop"]
    /\ UNCHANGED <<args, frame, alone, quote, priced>>

\* lines 81-92: the lambda calls implied_volatility for the next row
ApplyRow ==
    /\ app.pc = "apply" /\ frame = <<>> /\ app.row <= Len(app.calls_data)
    /\ args' = << Args(app.close_price, app.calls_data[app.row].strike,
                       Years(app.calls_data[app.row].days_to_exp),
                       app.risk_free_rate, app.div_yield,
                       app.calls_data[app.row].market_price, "c", DefaultTol,
                       DefaultMaxIter) >>
    /\ frame' = <<NewFrame>>
    /\ UNCHANGED <<alone, quote, priced, app>>

\* lines 81-92: the call has returned; an exception it raises ends the script
Collect ==
    /\ app.pc = "apply" /\ frame # <<>> /\ frame[1].pc = "done"
    /\ app' = IF frame[1].ret.kind = "raise" THEN [app EXCEPT !.pc = "failed"]
              ELSE [app EXCEPT !.calls_data[app.row].iv = InPercent(frame[1].ret),
                               !.row = @ + 1]
    /\ args' = <<>>
    /\ frame' = <<>>
    /\ UNCHANGED <<alone, quote, priced>>

\* line 94
Dropna ==
    /\ app.pc = "apply" /\ frame = <<>> /\ app.row > Len(app.calls_data)
    /\ app' = [app EXCEPT !.calls_data = DefinedRows(@), !.pc = "plot"]
    /\ UNCHANGED <<args, frame, alone, quote, priced>>

\* lines 98-107: the columns handed to griddata; of an empty table x_data.min()
\* raises (line 102) and griddata is not reached
Griddata ==
    /\ app.pc = "plot"
    /\ app' = IF app.calls_data = <<>> THEN [app EXCEPT !.pc = "failed"]
              ELSE [app EXCEPT
                        !.pc = "done",
                        !.points = [i \in DOMAIN app.calls_data |->
                                       [x |-> Years(app.calls_data[i].days_to_exp),
                                        y |-> app.calls_data[i].moneyness,
                                        z |-> app.calls_data[i].iv.v]]]
    /\ UNCHANGED <<args, frame, alone, quote, priced>>

NextApp ==
    \/ NoData
    \/ LoopExp
    \/ ApplyRow
    \/ \E c \in DOMAIN frame : Guard(c)
    \/ \E c \in DOMAIN frame : EvalA(c)
    \/ \E c \in DOMAIN frame : EvalB(c)
    \/ \E c \in DOMAIN frame : Iter(c)
    \/ Collect
    \/ Dropna
    \/ Griddata

InitApp ==
    /\ app \in { NewApp(f) : f \in Fetches }
    /\ args = <<>>
    /\ frame = <<>>
    /\ alone = <<>>
    /\ quote = NoQuote
    /\ priced = <<>>

SpecApp == InitApp /\ [][NextApp]_vars

----------------------------------------------------------------------------
(* claims about one implied_volatility call, under Spec *)

Calls == DOMAIN frame

IsDegenerate(c) == args[c].T <= 0 \/ args[c].market_price <= 0

ValidType(c) == args[c].option_type \in OptionTypes

\* C1: a call with time_to_expiration <= 0 or market_price <= 0 returns the
\* undefined marker in its first step: option_price is never invoked and the
\* root search is never started.
C1_DegenerateUndefined ==
    \A c \in Calls :
        IsDegenerate(c) =>
            /\ frame[c].pc \in {"call", "done"}
            /\ frame[c].funcalls = 0
            /\ frame[c].status = "INPROGRESS"
            /\ frame[c].pc = "done" => frame[c].ret = NaN

\* a call with T = 0, a positive price and a valid option type has returned
C1_Witness ==
    \E c \in Calls :
        /\ args[c].T = 0 /\ args[c].market_price > 0 /\ ValidType(c)
        /\ frame[c].pc = "done"

\* target has the same sign at both ends of the bracket, and is zero at neither
NoSignChange(a) ==
    LET fa == target_fn(a, BracketLo).v
        fb == target_fn(a, BracketHi).v
    IN  fa # 0 /\ fb # 0 /\ (fa < 0) = (fb < 0)

\* C2: a non-degenerate call with a valid option type whose target has no sign
\* change across [1e-6, 200], or whose search has not converged within
\* max_iterations, returns the undefined marker: no exception, no estimate, and
\* no option_price invocation beyond those of the one search.
C2_FailureUndefined ==
    \A c \in Calls :
        (/\ frame[c].pc = "done" /\ ~IsDegenerate(c) /\ ValidType(c)
         /\ args[c].tol > 0 /\ args[c].max_iter >= 1) =>
            /\ NoSignChange(args[c]) =>
                   frame[c].ret = NaN /\ frame[c].funcalls = 2
            /\ frame[c].status = "CONVERR" =>
                   /\ frame[c].ret = NaN
                   /\ frame[c].i = args[c].max_iter
                   /\ frame[c].funcalls = args[c].max_iter + 2

\* a search has used up its iterations without converging
C2_Witness ==
    \E c \in Calls :
        /\ frame[c].pc = "done" /\ frame[c].status = "CONVERR"
        /\ frame[c].i = args[c].max_iter /\ ValidType(c)

\* C4, as claimed: a non-degenerate call with an option type outside {c, p}
\* ends with the invalid-argument error raised to its caller.
C4_InvalidTypeRaises ==
    \A c \in Calls :
        (frame[c].pc = "done" /\ ~IsDegenerate(c) /\ ~ValidType(c)) =>
            frame[c].ret.kind = "raise"

\* C6, as claimed: an iteration at whose convergence test the bracket width or
\* |target| at the current estimate is within the tolerance is the last one.
C6_StopsOnWidthOrValue ==
    [][\A c \in Calls :
           (/\ frame[c].pc = "loop" /\ frame[c].i < args[c].max_iter
            /\ LET b == Bracket(frame[c])
               IN  \/ Abs[b.xblk - b.xcur] <= args[c].tol
                   \/ Abs[b.fcur] <= args[c].tol)
           => frame'[c].pc = "done"]_vars

\* C6, amended: an iteration is the last one exactly when, at its convergence
\* test, the bracket width is within the tolerance or target at the current
\* estimate is exactly zero; it then returns the current estimate.  A search
\* that has made max_iterations iterations stops, without a number.
C6_StopsOnWidthOrZero ==
    [][\A c \in Calls :
           frame[c].pc = "loop" =>
               IF frame[c].i >= args[c].max_iter
               THEN frame'[c].pc = "done" /\ frame'[c].ret.kind # "number"
               ELSE LET b == Bracket(frame[c])
                        stop == \/ b.fcur = 0
                                \/ Abs[b.xblk - b.xcur] <= args[c].tol
                    IN  /\ stop => frame'[c].pc = "done"
                                   /\ frame'[c].ret = Number(b.xcur)
                        /\ ~stop => frame'[c].pc = "loop"
                                    /\ frame'[c].i = frame[c].i + 1]_vars

\* a search goes on from a convergence test at which |target| is within the
\* tolerance, because target is not zero and the bracket is still wide
C6_Witness ==
    \E c \in Calls :
        /\ frame[c].pc = "loop" /\ frame[c].i > 0
        /\ Abs[frame[c].fpre] <= args[c].tol
        /\ frame[c].fpre # 0

\* C9: every option_price invocation of a call has time_to_expiration > 0 and
\* a volatility in [1e-6, 200], and a number that a call returns is in
\* [1e-6, 200].
C9_PricerGuarded ==
    \A c \in Calls :
        /\ frame[c].funcalls > 0 =>
               /\ args[c].T > 0
               /\ BracketLo <= frame[c].sigma /\ frame[c].sigma <= BracketHi
        /\ frame[c].ret.kind = "number" =>
               BracketLo <= frame[c].ret.v /\ frame[c].ret.v <= BracketHi

\* a search has invoked option_price inside the bracket, away from its ends,
\* and returned a number
C9_Witness ==
    \E c \in Calls :
        /\ frame[c].ret.kind = "number" /\ frame[c].funcalls > 2
        /\ BracketLo < frame[c].sigma /\ frame[c].sigma < BracketHi

----------------------------------------------------------------------------
(* claims about option_price, under SpecPricer *)

PricerPreconditions ==
    quote.S > 0 /\ quote.K > 0 /\ quote.T > 0 /\ quote.sigma > 0

\* C3: option_price with an option type outside {c, p} raises the
\* invalid-argument error and gives no number, whatever the other parameters.
C3_InvalidTypeRaises ==
    \A t \in DOMAIN priced :
        (PricerPreconditions /\ t \notin OptionTypes) =>
            priced[t] = Raise("ValueError")

C3_Witness == "x" \in DOMAIN priced /\ PricerPreconditions

\* the rounding of the fixed-point prices that parity is checked within: 2e-7
ParityTol == 2

\* spot e^(-qT) - strike e^(-rT)
Forward ==
    Mul[quote.S, Exp[-Mul[quote.q, quote.T]]]
    - Mul[quote.K, Exp[-Mul[quote.r, quote.T]]]

\* C8: the call price less the put price of the same parameters is
\* spot e^(-qT) - strike e^(-rT), within rounding.
C8_PutCallParity ==
    ({"c", "p"} \subseteq DOMAIN priced /\ PricerPreconditions) =>
        /\ priced["c"].exc = "none" /\ priced["p"].exc = "none"
        /\ Abs[priced["c"].v - priced["p"].v - Forward] <= ParityTol

\* both prices of an out-of-the-money quote are known and differ
C8_Witness ==
    /\ {"c", "p"} \subseteq DOMAIN priced /\ PricerPreconditions
    /\ quote.K > quote.S
    /\ priced["c"].v > 0 /\ priced["p"].v > priced["c"].v

----------------------------------------------------------------------------
(* the round trip, under SpecRoundTrip *)

\* 1e-4, and half a unit of the fourth decimal
RoundTripTol == SC \div 10000

ScenarioTol == SC \div 20000

\* C5: implied_volatility of the call price of volatility s returns a number
\* within 1e-4 of s, for the strikes and volatilities listed; for the scenario
\* quote it returns 0.2000 to four decimals.
C5_RoundTrip ==
    \A c \in Calls :
        frame[c].pc = "done" =>
            /\ frame[c].ret.kind = "number"
            /\ Abs[frame[c].ret.v - quote.sigma] <= RoundTripTol
            /\ quote = Scenario =>
                   Abs[frame[c].ret.v - quote.sigma] < ScenarioTol

\* the deep in-the-money quote of volatility 0.1 has been inverted
C5_Witness ==
    \E c \in Calls :
        /\ frame[c].pc = "done" /\ frame[c].i > 0
        /\ quote.K = 80 * SC /\ quote.sigma = SC \div 10
        /\ args[c].market_price = priced["c"].v

----------------------------------------------------------------------------
(* concurrent calls, under SpecConc *)

\* C7: under every interleaving of the steps of concurrent calls, each call
\* returns what it returns when it runs alone on the same arguments.
C7_CallsIndependent ==
    \A c \in Calls : frame[c].pc = "done" => frame[c].ret = alone[c]

\* a call has returned a number while another call, with other arguments, is in
\* the middle of its search
C7_Witness ==
    \E c, d \in Calls :
        /\ c # d /\ args[c] # args[d]
        /\ frame[c].pc = "done" /\ frame[c].ret.kind = "number"
        /\ frame[d].pc = "loop" /\ frame[d].i > 0

----------------------------------------------------------------------------
(* the points of the surface, under SpecApp *)

\* the fetched quote o of expiration e passes every filter
PassesFilters(e, o) ==
    /\ e.days >= 7
    /\ (o.ask + o.bid) \div 2 > 0
    /\ Div[o.strike, app.close_price] >= app.min_moneyness
    /\ Div[o.strike, app.close_price] <= app.max_moneyness

=============================================================================
